---- MODULE Spec2Model ----
(***************************************************************************)
(* A model of dxfgeom.py: the entity classes (Entity, Line, Arc, Contour), *)
(* the endpoint matching (fits), contour growth (append / prepend), the    *)
(* contour builder (find_contours) and the cached arc subdivision          *)
(* (Arc._gensegments / Arc.dxfdata).                                       *)
(*                                                                         *)
(* Numbers.  The floats of the source are modelled in fixed point: one     *)
(* unit is 0.001 drawing units, so Entity.delta = 0.005 is 5 and           *)
(* Arc.segmentsize = 5 is 5000.  Angles are whole degrees.  cos and sin    *)
(* are tabulated in thousandths for the multiples of 15 degrees, which are *)
(* the only angles the modelled arcs use.                                  *)
(*                                                                         *)
(* Objects.  Python entities are mutable objects that lists refer to.  The *)
(* model keeps them in an object store, obj: identity -> current record,   *)
(* and every list (elements, Contour.ent, remlines, ...) holds identities. *)
(***************************************************************************)
EXTENDS Integers, Sequences, FiniteSets, TLC

VARIABLES
    obj,        \* the object store: identity -> the entity's current fields
    cn,         \* the Contour being grown (find_contours' cn), or None
    op,         \* the last method called: "init", "append", "prepend" of a
                \* Contour; "swap", "dxfdata" of the Arc of the export model
    arg,        \* the identity passed to that call (0 for none)
    ret,        \* what that call returned
    pre,        \* the contour and the object store as they were before that call
    lol,        \* find_contours' argument: the list of lines
    loa,        \* find_contours' argument: the list of arcs
    elements,   \* find_contours' working list
    loc,        \* find_contours' list of finished contours
    remlines,   \* find_contours' remaining lines
    remarcs,    \* find_contours' remaining arcs
    first,      \* find_contours' seed of the contour being grown
    oldlen,     \* find_contours' oldlen
    n,          \* find_contours' scan index (0-based, as in the source)
    pc,         \* find_contours' position
    call,       \* which call of find_contours is running (1 or 2)
    mode,       \* how the second call was made: "same" objects or "fresh" permutation
    out1,       \* what the first call returned, and the object store it left
    arc,        \* the Arc of the export model
    emitted,    \* the points of the segment chain the last Arc.dxfdata emitted
    gens,       \* how many times Arc._gensegments has run on arc
    len         \* what the last length() call returned (None before any)

vars == <<obj, cn, op, arg, ret, pre, lol, loa, elements, loc, remlines,
          remarcs, first, oldlen, n, pc, call, mode, out1, arc, emitted,
          gens, len>>

\* Python's None for an optional value: the empty tuple; a value v that is
\* present is <<v>>.
None == <<>>

\* No Contour object (cn outside a call).
NoContour == [kind |-> "None"]

\* Entity.delta, in thousandths of a drawing unit.
delta == 5

\* Arc.segmentsize, in thousandths of a drawing unit.
segmentsize == 5000

(***************************************************************************)
(* Arithmetic helpers.                                                     *)
(***************************************************************************)
Min(a, b) == IF a < b THEN a ELSE b

Max(a, b) == IF a > b THEN a ELSE b

fabs(a) == IF a < 0 THEN 0 - a ELSE a

\* 1000 * cos of a first-quadrant multiple of 15 degrees.
CosQ(a) ==
    CASE a = 0 -> 1000
      [] a = 15 -> 966
      [] a = 30 -> 866
      [] a = 45 -> 707
      [] a = 60 -> 500
      [] a = 75 -> 259
      [] a = 90 -> 0

\* 1000 * math.cos(math.radians(a)), a a multiple of 15 degrees.
cos(a) ==
    LET r == a % 360
    IN  IF r <= 90 THEN CosQ(r)
        ELSE IF r <= 180 THEN 0 - CosQ(180 - r)
        ELSE IF r <= 270 THEN 0 - CosQ(r - 180)
        ELSE CosQ(360 - r)

\* 1000 * math.sin(math.radians(a)).
sin(a) == cos(a + 270)

(***************************************************************************)
(* Entity, Line.                                                           *)
(***************************************************************************)
\* Entity.__init__
Entity(x1, y1, x2, y2) ==
    [x1 |-> x1, y1 |-> y1, x2 |-> x2, y2 |-> y2,
     xmin |-> Min(x1, x2), ymin |-> Min(y1, y2),
     xmax |-> Max(x1, x2), ymax |-> Max(y1, y2),
     sw |-> FALSE]

\* Line.__init__
Line(x1, y1, x2, y2) == [kind |-> "Line"] @@ Entity(x1, y1, x2, y2)

\* Two coordinates within Entity.delta of each other.
near(a, b) == fabs(a - b) < delta

\* Entity.fits without its elif branches: only the start point of other is
\* tested.
fits_start_only(self, index, other) ==
    IF index = 1
    THEN IF near(self.x1, other.x1) /\ near(self.y1, other.y1) THEN 2 ELSE 0
    ELSE IF index = 2
    THEN IF near(self.x2, other.x1) /\ near(self.y2, other.y1) THEN 2 ELSE 0
    ELSE 0

\* Entity.fits: 0 when other does not fit on end index of self, otherwise
\* the end of other that stays free.
fits(self, index, other) ==
    IF index = 1
    THEN IF near(self.x1, other.x1) /\ near(self.y1, other.y1) THEN 2
         ELSE IF near(self.x1, other.x2) /\ near(self.y1, other.y2) THEN 1
         ELSE 0
    ELSE IF index = 2
    THEN IF near(self.x2, other.x1) /\ near(self.y2, other.y1) THEN 2
         ELSE IF near(self.x2, other.x2) /\ near(self.y2, other.y2) THEN 1
         ELSE 0
    ELSE 0

\* Entity.getbb
getbb(e) == <<e.xmin, e.ymin, e.xmax, e.ymax>>

\* Entity.swap
swap(e) == [e EXCEPT !.x1 = e.x2, !.x2 = e.x1, !.y1 = e.y2, !.y2 = e.y1,
                     !.sw = ~e.sw]

\* merge_bb with the wrong corner of b in its last component.
merge_bb_wrong_corner(a, b) ==
    <<Min(a[1], b[1]), Min(a[2], b[2]), Max(a[3], b[3]), Max(a[4], b[2])>>

\* merge_bb
merge_bb(a, b) ==
    <<Min(a[1], b[1]), Min(a[2], b[2]), Max(a[3], b[3]), Max(a[4], b[4])>>

(***************************************************************************)
(* Arc.                                                                    *)
(***************************************************************************)
\* The loop of Arc.__init__ that refines the bounding box: for ang in
\* range(A1, A2), with the source's if / elif on each axis.
RECURSIVE refine(_, _, _, _, _, _)
refine(e, cx, cy, R, ang, A2) ==
    IF ang >= A2 THEN e
    ELSE LET px == cx + (R * cos(90 * ang)) \div 1000
             py == cy + (R * sin(90 * ang)) \div 1000
             ex == IF px > e.xmax THEN [e EXCEPT !.xmax = px]
                   ELSE IF px < e.xmin THEN [e EXCEPT !.xmin = px]
                   ELSE e
             ey == IF py > ex.ymax THEN [ex EXCEPT !.ymax = py]
                   ELSE IF py < ex.ymin THEN [ex EXCEPT !.ymin = py]
                   ELSE ex
         IN  refine(ey, cx, cy, R, ang + 1, A2)

\* The angles 90 * ang of that loop: ang in range(int(a1)/90, int(a2)/90).
axis_angles(a1, a2) == {90 * ang : ang \in (a1 \div 90) .. (a2 \div 90 - 1)}

\* Arc.__init__ (a2 > a1 >= 0; int(a)/90 is Python 2's integer division).
Arc(cx, cy, R, a1, a2) ==
    LET x1 == cx + (R * cos(a1)) \div 1000
        y1 == cy + (R * sin(a1)) \div 1000
        x2 == cx + (R * cos(a2)) \div 1000
        y2 == cy + (R * sin(a2)) \div 1000
        base == [kind |-> "Arc", cx |-> cx, cy |-> cy, R |-> R,
                 a1 |-> a1, a2 |-> a2, segments |-> None]
                @@ Entity(x1, y1, x2, y2)
    IN  refine(base, cx, cy, R, a1 \div 90, a2 \div 90)

(***************************************************************************)
(* Contour.                                                                *)
(***************************************************************************)
\* Contour.__init__: h is the object store, e the identity of the seed.
Contour(h, e) ==
    [kind |-> "Contour", ent |-> <<e>>, nument |-> 1]
    @@ Entity(h[e].x1, h[e].y1, h[e].x2, h[e].y2)

\* The bounding box assignment of append / prepend.
setbb(c, bb) ==
    [c EXCEPT !.xmin = bb[1], !.ymin = bb[2], !.xmax = bb[3], !.ymax = bb[4]]

\* Contour.append reversing the candidate on the other outcome of fits
\* (newfree = 2 instead of newfree = 1).
append_swap_on_2(c, h, e) ==
    LET last == h[c.ent[Len(c.ent)]]
        newfree == fits(last, 2, h[e])
    IN  IF newfree = 0 THEN [ret |-> FALSE, cn |-> c, obj |-> h]
        ELSE LET c1 == [c EXCEPT !.ent = Append(@, e), !.nument = @ + 1]
                 c2 == setbb(c1, merge_bb(getbb(c1), getbb(h[e])))
                 h2 == IF newfree = 2 THEN [h EXCEPT ![e] = swap(@)] ELSE h
             IN  [ret |-> TRUE,
                  cn |-> [c2 EXCEPT !.x2 = h2[e].x2, !.y2 = h2[e].y2],
                  obj |-> h2]

\* Contour.append without its "if newfree == 1: ent.swap()".
append_never_swaps(c, h, e) ==
    LET last == h[c.ent[Len(c.ent)]]
        newfree == fits(last, 2, h[e])
    IN  IF newfree = 0 THEN [ret |-> FALSE, cn |-> c, obj |-> h]
        ELSE LET c1 == [c EXCEPT !.ent = Append(@, e), !.nument = @ + 1]
                 c2 == setbb(c1, merge_bb(getbb(c1), getbb(h[e])))
             IN  [ret |-> TRUE,
                  cn |-> [c2 EXCEPT !.x2 = h[e].x2, !.y2 = h[e].y2],
                  obj |-> h]

\* Contour.append adding the candidate to the member list before the fit is
\* tested.
append_before_test(c, h, e) ==
    LET last == h[c.ent[Len(c.ent)]]
        newfree == fits(last, 2, h[e])
        c1 == [c EXCEPT !.ent = Append(@, e), !.nument = @ + 1]
    IN  IF newfree = 0 THEN [ret |-> FALSE, cn |-> c1, obj |-> h]
        ELSE LET c2 == setbb(c1, merge_bb(getbb(c1), getbb(h[e])))
                 h2 == IF newfree = 1 THEN [h EXCEPT ![e] = swap(@)] ELSE h
             IN  [ret |-> TRUE,
                  cn |-> [c2 EXCEPT !.x2 = h2[e].x2, !.y2 = h2[e].y2],
                  obj |-> h2]

\* Contour.append: the value returned, the contour and the object store
\* after the call.
append(c, h, e) ==
    LET last == h[c.ent[Len(c.ent)]]
        newfree == fits(last, 2, h[e])
    IN  IF newfree = 0 THEN [ret |-> FALSE, cn |-> c, obj |-> h]
        ELSE LET c1 == [c EXCEPT !.ent = Append(@, e), !.nument = @ + 1]
                 c2 == setbb(c1, merge_bb(getbb(c1), getbb(h[e])))
                 h2 == IF newfree = 1 THEN [h EXCEPT ![e] = swap(@)] ELSE h
             IN  [ret |-> TRUE,
                  cn |-> [c2 EXCEPT !.x2 = h2[e].x2, !.y2 = h2[e].y2],
                  obj |-> h2]

\* Contour.prepend
prepend(c, h, e) ==
    LET first0 == h[c.ent[1]]
        newfree == fits(first0, 1, h[e])
    IN  IF newfree = 0 THEN [ret |-> FALSE, cn |-> c, obj |-> h]
        ELSE LET c1 == [c EXCEPT !.ent = <<e>> \o @, !.nument = @ + 1]
                 c2 == setbb(c1, merge_bb(getbb(c1), getbb(h[e])))
                 h2 == IF newfree = 2 THEN [h EXCEPT ![e] = swap(@)] ELSE h
             IN  [ret |-> TRUE,
                  cn |-> [c2 EXCEPT !.x1 = h2[e].x1, !.y1 = h2[e].y1],
                  obj |-> h2]

(***************************************************************************)
(* length().  math.sqrt is modelled to the thousandth, rounded down.       *)
(***************************************************************************)
\* The largest r in lo .. hi with r * r <= v.
RECURSIVE root_between(_, _, _)
root_between(v, lo, hi) ==
    IF lo >= hi THEN lo
    ELSE LET mid == (lo + hi + 1) \div 2
         IN  IF mid * mid <= v THEN root_between(v, mid, hi)
             ELSE root_between(v, lo, mid - 1)

\* math.sqrt(v), for v below 46340 squared.
sqrt(v) == root_between(v, 0, 46340)

\* Line.length: dy is taken from y2 and x1, as the source has it.
line_length(l) ==
    LET dx == l.x2 - l.x1
        dy == l.y2 - l.x1
    IN  sqrt(dx * dx + dy * dy)

\* Arc.length: R * math.radians(a2 - a1), math.pi / 180 taken as 349 / 20000.
arc_length(a) == (a.R * (a.a2 - a.a1) * 349) \div 20000

\* e.length() for a Line or an Arc.
length(e) == IF e.kind = "Line" THEN line_length(e) ELSE arc_length(e)

\* Contour.length: the sum of the members' lengths.
RECURSIVE sum_lengths(_, _)
sum_lengths(h, ent) ==
    IF ent = <<>> THEN 0
    ELSE length(h[Head(ent)]) + sum_lengths(h, Tail(ent))

contour_length(c, h) == sum_lengths(h, c.ent)

(***************************************************************************)
(* The entities the model draws its inputs from: lines and arcs (in real   *)
(* coordinates, thousandths) that meet end to end, meet three at a point,  *)
(* meet only within the tolerance, or stand alone.                         *)
(***************************************************************************)
Drawing ==
    <<Line(0, 0, 1000, 0),            \* 1
      Line(2000, 0, 1000, 0),         \* 2: meets 1 at its end point
      Line(1000, 0, 1000, 1000),      \* 3: third entity at (1,0)
      Line(1004, 3, 0, 2000),         \* 4: starts within delta of (1,0)
      Line(1008, 0, 3000, 3000),      \* 5: within delta of 4's start, not of (1,0)
      Arc(0, 1000, 1000, 270, 450),   \* 6: from (0,0) to (0,2), bulging to x = 1
      Line(5000, 5000, 6000, 5000),   \* 7: touches nothing
      Arc(2000, 1000, 1000, 90, 270), \* 8: from (2,2) to (2,0), bulging to x = 1
      Line(997, 0, 1003, 0)>>         \* 9: both ends within delta of (1,0)

Ids == 1 .. Len(Drawing)

\* The object store right after the reader built the entities.
Fresh == [i \in Ids |-> Drawing[i]]

Range(s) == {s[i] : i \in 1 .. Len(s)}


(***************************************************************************)
(* The Contour methods on their own: a contour is created from any entity, *)
(* and then any entity that is not yet one of its members is offered to    *)
(* append or to prepend, in any order, whether it fits or not.  (Members   *)
(* are moved into the contour: find_contours deletes a joined entity from  *)
(* its working list, so no entity is offered twice.)                       *)
(***************************************************************************)
idle ==
    /\ lol = <<>> /\ loa = <<>> /\ elements = <<>> /\ loc = <<>>
    /\ remlines = <<>> /\ remarcs = <<>> /\ first = 0 /\ oldlen = 0
    /\ n = 0 /\ pc = "idle" /\ call = 0 /\ mode = "none"
    /\ out1 = NoContour

noarc ==
    /\ arc = NoContour /\ emitted = <<>> /\ gens = 0 /\ len = None

InitContour ==
    /\ obj = Fresh
    /\ \E e \in Ids : /\ cn = Contour(Fresh, e)
                      /\ arg = e
    /\ op = "init"
    /\ ret = TRUE
    /\ pre = [cn |-> NoContour, obj |-> Fresh]
    /\ idle
    /\ noarc

unchangedBuilder ==
    UNCHANGED <<lol, loa, elements, loc, remlines, remarcs, first, oldlen, n,
                pc, call, mode, out1>>

unchangedArc == UNCHANGED <<arc, emitted, gens>>

unchangedLength == UNCHANGED len

\* cn.append(e)
CallAppend(e) ==
    /\ e \notin Range(cn.ent)
    /\ LET r == append(cn, obj, e)
       IN  /\ cn' = r.cn
           /\ obj' = r.obj
           /\ ret' = r.ret
    /\ op' = "append"
    /\ arg' = e
    /\ pre' = [cn |-> cn, obj |-> obj]
    /\ unchangedBuilder
    /\ unchangedArc
    /\ unchangedLength

\* cn.prepend(e)
CallPrepend(e) ==
    /\ e \notin Range(cn.ent)
    /\ LET r == prepend(cn, obj, e)
       IN  /\ cn' = r.cn
           /\ obj' = r.obj
           /\ ret' = r.ret
    /\ op' = "prepend"
    /\ arg' = e
    /\ pre' = [cn |-> cn, obj |-> obj]
    /\ unchangedBuilder
    /\ unchangedArc
    /\ unchangedLength

\* cn.length()
CallLength ==
    /\ len' = <<contour_length(cn, obj)>>
    /\ op' = "length"
    /\ UNCHANGED <<obj, cn, arg, ret, pre>>
    /\ unchangedBuilder
    /\ unchangedArc

NextContour ==
    \/ \E e \in Ids : CallAppend(e) \/ CallPrepend(e)
    \/ CallLength

SpecContour == InitContour /\ [][NextContour]_vars


(***************************************************************************)
(* find_contours, one action per step of its loops.  A second call follows *)
(* the first, either on the same lists and the same objects as the first   *)
(* call left them, or on a permutation of the lists with the entities as   *)
(* the reader built them.                                                  *)
(***************************************************************************)
\* The longest input (lines and arcs together) the model feeds find_contours.
MaxPrims == 4

\* The longest input whose orderings the second call is made on.
MaxPermuted == 3

LineIds == {i \in Ids : Drawing[i].kind = "Line"}

ArcIds == {i \in Ids : Drawing[i].kind = "Arc"}

\* The lists of distinct members of S of length at most k.
Lists(S, k) ==
    UNION {{s \in [1 .. m -> S] : \A i, j \in 1 .. m : i # j => s[i] # s[j]}
           : m \in 0 .. k}

\* The orderings of list s.
Permutations_of(s) == {t \in Lists(Range(s), Len(s)) : Len(t) = Len(s)}

\* del s[k], k counted from 0.
del(s, k) == [i \in 1 .. Len(s) - 1 |-> IF i <= k THEN s[i] ELSE s[i + 1]]

\* The body of the inner loop without its "or cn.prepend(elements[n])".
scan_step_append_only(c, h, els, k) ==
    LET e == els[k + 1]
        r == append(c, h, e)
    IN  [cn |-> r.cn, obj |-> r.obj,
         elements |-> IF r.ret THEN del(els, k) ELSE els,
         n |-> IF r.ret THEN k ELSE k + 1]

\* One pass of the body of "while n < len(elements)": append, else prepend,
\* the element at index k; delete it when it joined, step over it otherwise.
scan_step(c, h, els, k) ==
    LET e == els[k + 1]
        a == append(c, h, e)
        r == IF a.ret THEN a ELSE prepend(a.cn, a.obj, e)
    IN  [cn |-> r.cn, obj |-> r.obj,
         elements |-> IF r.ret THEN del(els, k) ELSE els,
         n |-> IF r.ret THEN k ELSE k + 1]

\* The test that ends "while True", ending it after the first scan.
scan_once(c, old) == TRUE

\* The test that ends "while True": the last scan joined nothing.
scan_joined_nothing(c, old) == c.nument = old

\* The statements after the scans without the else: the seed goes to
\* remlines or remarcs also when the contour went to loc.
emit_seed_always(c, h, f, locs, rl, ra) ==
    LET l2 == IF c.nument > 1 THEN Append(locs, c) ELSE locs
    IN  IF h[f].kind = "Line"
        THEN [loc |-> l2, remlines |-> Append(rl, f), remarcs |-> ra]
        ELSE [loc |-> l2, remlines |-> rl, remarcs |-> Append(ra, f)]

\* The statements after the scans: the contour goes to loc when it has
\* more than one member, its seed to remlines or remarcs otherwise.
emit(c, h, f, locs, rl, ra) ==
    IF c.nument > 1
    THEN [loc |-> Append(locs, c), remlines |-> rl, remarcs |-> ra]
    ELSE IF h[f].kind = "Line"
    THEN [loc |-> locs, remlines |-> Append(rl, f), remarcs |-> ra]
    ELSE IF h[f].kind = "Arc"
    THEN [loc |-> locs, remlines |-> rl, remarcs |-> Append(ra, f)]
    ELSE [loc |-> locs, remlines |-> rl, remarcs |-> ra]

unchangedMethod == UNCHANGED <<op, arg, ret, pre>>

\* The state on entry to the first call, after the four assignments that
\* open find_contours.
Init ==
    /\ obj = Fresh
    /\ \E l \in Lists(LineIds, MaxPrims), a \in Lists(ArcIds, MaxPrims) :
          /\ Len(l) + Len(a) <= MaxPrims
          /\ lol = l
          /\ loa = a
          /\ elements = l \o a
    /\ loc = <<>> /\ remlines = <<>> /\ remarcs = <<>>
    /\ cn = NoContour /\ first = 0 /\ oldlen = 0 /\ n = 0
    /\ pc = "while" /\ call = 1 /\ mode = "first" /\ out1 = NoContour
    /\ op = "none" /\ arg = 0 /\ ret = FALSE
    /\ pre = [cn |-> NoContour, obj |-> Fresh]
    /\ noarc

\* first = elements.pop(0); cn = Contour(first); oldlen = cn.nument; n = 0
Pop ==
    /\ pc = "while" /\ Len(elements) > 0
    /\ first' = elements[1]
    /\ elements' = Tail(elements)
    /\ cn' = Contour(obj, elements[1])
    /\ oldlen' = 1
    /\ n' = 0
    /\ pc' = "scan"
    /\ UNCHANGED <<obj, lol, loa, loc, remlines, remarcs, call, mode, out1>>
    /\ unchangedMethod /\ unchangedArc /\ unchangedLength

\* The body of the inner while loop, on elements[n].
Scan ==
    /\ pc = "scan" /\ n < Len(elements)
    /\ LET r == scan_step(cn, obj, elements, n)
       IN  /\ cn' = r.cn
           /\ obj' = r.obj
           /\ elements' = r.elements
           /\ n' = r.n
    /\ UNCHANGED <<lol, loa, loc, remlines, remarcs, first, oldlen, pc, call,
                   mode, out1>>
    /\ unchangedMethod /\ unchangedArc /\ unchangedLength

\* The scan joined something: oldlen = cn.nument, and scan again from n = 0.
Rescan ==
    /\ pc = "scan" /\ n >= Len(elements)
    /\ ~scan_joined_nothing(cn, oldlen)
    /\ oldlen' = cn.nument
    /\ n' = 0
    /\ UNCHANGED <<obj, cn, lol, loa, elements, loc, remlines, remarcs, first,
                   pc, call, mode, out1>>
    /\ unchangedMethod /\ unchangedArc /\ unchangedLength

\* The scan joined nothing: break, and emit the contour or its seed.
Emit ==
    /\ pc = "scan" /\ n >= Len(elements)
    /\ scan_joined_nothing(cn, oldlen)
    /\ LET r == emit(cn, obj, first, loc, remlines, remarcs)
       IN  /\ loc' = r.loc
           /\ remlines' = r.remlines
           /\ remarcs' = r.remarcs
    /\ pc' = "while"
    /\ UNCHANGED <<obj, cn, lol, loa, elements, first, oldlen, n, call, mode,
                   out1>>
    /\ unchangedMethod /\ unchangedArc /\ unchangedLength

\* return (loc, remlines, remarcs)
Return ==
    /\ pc = "while" /\ Len(elements) = 0
    /\ pc' = "done"
    /\ out1' = IF call = 1
               THEN [loc |-> loc, remlines |-> remlines, remarcs |-> remarcs,
                     obj |-> obj]
               ELSE out1
    /\ UNCHANGED <<obj, cn, lol, loa, elements, loc, remlines, remarcs, first,
                   oldlen, n, call, mode>>
    /\ unchangedMethod /\ unchangedArc /\ unchangedLength

\* find_contours(lol, loa) again: the same lists, the same objects.
CallAgain ==
    /\ pc = "done" /\ call = 1
    /\ call' = 2
    /\ mode' = "same"
    /\ elements' = lol \o loa
    /\ loc' = <<>> /\ remlines' = <<>> /\ remarcs' = <<>>
    /\ pc' = "while"
    /\ UNCHANGED <<obj, cn, lol, loa, first, oldlen, n, out1>>
    /\ unchangedMethod /\ unchangedArc /\ unchangedLength

\* find_contours on a permutation of the lists, the entities read afresh.
CallPermuted ==
    /\ pc = "done" /\ call = 1
    /\ Len(lol) + Len(loa) <= MaxPermuted
    /\ call' = 2
    /\ mode' = "fresh"
    /\ obj' = Fresh
    /\ \E l \in Permutations_of(lol), a \in Permutations_of(loa) :
          /\ lol' = l
          /\ loa' = a
          /\ elements' = l \o a
    /\ loc' = <<>> /\ remlines' = <<>> /\ remarcs' = <<>>
    /\ pc' = "while"
    /\ UNCHANGED <<cn, first, oldlen, n, out1>>
    /\ unchangedMethod /\ unchangedArc /\ unchangedLength

Next == Pop \/ Scan \/ Rescan \/ Emit \/ Return \/ CallAgain \/ CallPermuted

Spec == Init /\ [][Next]_vars

(***************************************************************************)
(* The export of one Arc as line segments (Arc.as_segments is True): any   *)
(* sequence of swap and dxfdata calls on it.                               *)
(*                                                                         *)
(* The arcs are those whose angles stay whole multiples of 15 degrees      *)
(* through the subdivision, for which the float sums of _frange are exact. *)
(***************************************************************************)
\* math.asin(segmentsize / R) / math.pi * 180 in millionths of a degree,
\* rounded up, for the radii of the model: the source's floats give 90.0
\* for R = 5 and 30.000000000000004 for R = 10.
asin_deg(R) ==
    CASE R = 5000 -> 90000000
      [] R = 10000 -> 30000001

\* cnt of _gensegments for the arc a.
cnt_of(a) ==
    IF segmentsize > a.R THEN 1
    ELSE ((a.a2 - a.a1) * 1000000) \div asin_deg(a.R) + 1

\* _frange(start, end, step): the list of angles.
RECURSIVE frange_from(_, _, _)
frange_from(a, end, step) ==
    IF (step > 0 /\ a < end) \/ (step < 0 /\ a > end)
    THEN <<a + step>> \o frange_from(a + step, end, step)
    ELSE <<>>

frange(start, end, step) == <<start>> \o frange_from(start, end, step)

\* Arc._gensegments: the list of Lines.
gensegments(a) ==
    LET step0 == (a.a2 - a.a1) \div cnt_of(a)
        sa == IF a.sw THEN a.a2 ELSE a.a1
        ea == IF a.sw THEN a.a1 ELSE a.a2
        step == IF a.sw THEN 0 - step0 ELSE step0
        angs == frange(sa, ea, step)
        pnts == [i \in 1 .. Len(angs) |->
                    <<a.cx + (a.R * cos(angs[i])) \div 1000,
                      a.cy + (a.R * sin(angs[i])) \div 1000>>]
    IN  [j \in 1 .. Len(pnts) - 1 |->
            Line(pnts[j][1], pnts[j][2], pnts[j + 1][1], pnts[j + 1][2])]

\* Line.dxfdata: the two points the LINE record carries.
line_dxfdata(l) == <<<<l.x1, l.y1>>, <<l.x2, l.y2>>>>

\* Arc.dxfdata with Arc.as_segments True: the arc after the call (its
\* segments cached), the records emitted, and whether _gensegments ran.
dxfdata(a) ==
    LET ran == a.segments = None
        a2 == IF ran THEN [a EXCEPT !.segments = <<gensegments(a)>>] ELSE a
        sgs == a2.segments[1]
    IN  [arc |-> a2,
         s |-> [i \in 1 .. Len(sgs) |-> line_dxfdata(sgs[i])],
         ran |-> ran]

\* The radii (thousandths) and the start angles and spans (degrees) of the
\* arcs of the export model.
Radii == {2000, 5000, 10000}

StartAngles == {0, 45, 90, 180, 270}

Spans == {90, 180}

InitArc ==
    /\ \E R \in Radii, a1 \in StartAngles, sp \in Spans :
          arc = Arc(0, 0, R, a1, a1 + sp)
    /\ emitted = <<>>
    /\ gens = 0
    /\ len = None
    /\ op = "init" /\ arg = 0 /\ ret = FALSE
    /\ obj = Fresh /\ cn = NoContour
    /\ pre = [cn |-> NoContour, obj |-> Fresh]
    /\ idle

\* arc.swap()
ArcSwap ==
    /\ arc' = swap(arc)
    /\ op' = "swap"
    /\ UNCHANGED <<emitted, gens, obj, cn, arg, ret, pre>>
    /\ unchangedBuilder
    /\ unchangedLength

\* arc.dxfdata()
ArcDxfdata ==
    /\ LET r == dxfdata(arc)
       IN  /\ arc' = r.arc
           /\ emitted' = r.s
           /\ gens' = IF r.ran THEN gens + 1 ELSE gens
    /\ op' = "dxfdata"
    /\ UNCHANGED <<obj, cn, arg, ret, pre>>
    /\ unchangedBuilder
    /\ unchangedLength

NextArc == ArcSwap \/ ArcDxfdata

SpecArc == InitArc /\ [][NextArc]_vars

(***************************************************************************)
(* Properties of the Contour methods.                                      *)
(***************************************************************************)
\* Two points coincident within delta on both axes.
coincident(px, py, qx, qy) == near(px, qx) /\ near(py, qy)

\* Box a contains box b.
contains(a, b) == a[1] <= b[1] /\ a[2] <= b[2] /\ a[3] >= b[3] /\ a[4] >= b[4]

joined == op \in {"append", "prepend"} /\ ret

refused == op \in {"append", "prepend"} /\ ~ret

C6_BoundingBoxUnion ==
    joined =>
        LET a == getbb(pre.cn)
            b == getbb(pre.obj[arg])
        IN  /\ cn.xmin = Min(a[1], b[1])
            /\ cn.ymin = Min(a[2], b[2])
            /\ cn.xmax = Max(a[3], b[3])
            /\ cn.ymax = Max(a[4], b[4])

\* A successful join that enlarged the box on both axes.
C6_Witness ==
    /\ joined
    /\ getbb(cn) # getbb(pre.cn)
    /\ getbb(cn) # getbb(pre.obj[arg])

\* C7.  The contour's bounding box contains the bounding box of every one
\* of its members, the seed included.
C7_BoxContainsMembers ==
    \A i \in 1 .. Len(cn.ent) : contains(getbb(cn), getbb(obj[cn.ent[i]]))

\* C8.  When append or prepend returns False, the contour's members, member
\* count, end points and bounding box, and the candidate's end points and
\* swapped flag, are what they were before the call.
C8_FailureChangesNothing ==
    refused =>
        /\ cn.ent = pre.cn.ent
        /\ cn.nument = pre.cn.nument
        /\ <<cn.x1, cn.y1, cn.x2, cn.y2>>
             = <<pre.cn.x1, pre.cn.y1, pre.cn.x2, pre.cn.y2>>
        /\ getbb(cn) = getbb(pre.cn)
        /\ <<obj[arg].x1, obj[arg].y1, obj[arg].x2, obj[arg].y2, obj[arg].sw>>
             = <<pre.obj[arg].x1, pre.obj[arg].y1, pre.obj[arg].x2,
                 pre.obj[arg].y2, pre.obj[arg].sw>>

\* A refused append on a contour that already has two members.
C8_Witness == refused /\ op = "append" /\ Len(cn.ent) >= 2


(***************************************************************************)
(* Properties of find_contours.                                            *)
(***************************************************************************)
returned == pc = "done"

Inputs == Range(lol) \cup Range(loa)

\* The member lists of the contours of locs, one after the other.
RECURSIVE members_of(_)
members_of(locs) ==
    IF locs = <<>> THEN <<>> ELSE Head(locs).ent \o members_of(Tail(locs))

\* Every place an entity can be returned in, one after the other.
Places(locs, rl, ra) == members_of(locs) \o rl \o ra

\* The member sets of the contours of locs.
Groups(locs) == {Range(locs[i].ent) : i \in 1 .. Len(locs)}

\* C1.  When find_contours returns, every input entity is in exactly one
\* place among the contours' member lists, remlines and remarcs.
C1_Partition ==
    returned =>
        LET all == Places(loc, remlines, remarcs)
        IN  /\ Range(all) = Inputs
            /\ Len(all) = Cardinality(Inputs)

\* A return with a contour, a remaining line and a remaining arc.
C1_Witness ==
    /\ returned
    /\ Len(loc) >= 1 /\ Len(remlines) >= 1 /\ Len(remarcs) >= 1

\* Entities a and b have some pair of end points coincident within delta.
touch(a, b) ==
    \/ coincident(a.x1, a.y1, b.x1, b.y1)
    \/ coincident(a.x1, a.y1, b.x2, b.y2)
    \/ coincident(a.x2, a.y2, b.x1, b.y1)
    \/ coincident(a.x2, a.y2, b.x2, b.y2)

\* The inputs a chain of touching inputs leads to from the set S.
RECURSIVE reach(_)
reach(S) ==
    LET T == S \cup {b \in Inputs : \E a \in S : touch(Fresh[a], Fresh[b])}
    IN  IF T = S THEN S ELSE reach(T)

connected(a, b) == b \in reach({a})

same_contour(locs, a, b) == \E g \in Groups(locs) : a \in g /\ b \in g

\* The number of input end points, other than end k of a itself, that are
\* coincident with end k of entity a.
End(i, k) ==
    IF k = 1 THEN <<Fresh[i].x1, Fresh[i].y1>> ELSE <<Fresh[i].x2, Fresh[i].y2>>

partners(a, k) ==
    {q \in Inputs \X {1, 2} :
        /\ q # <<a, k>>
        /\ coincident(End(a, k)[1], End(a, k)[2],
                      End(q[1], q[2])[1], End(q[1], q[2])[2])}

\* No end point of the input is coincident with more than one other.
simple_joints ==
    \A a \in Inputs, k \in {1, 2} : Cardinality(partners(a, k)) <= 1

\* C2 as stated.  Two entities are members of the same contour if and only
\* if a chain of touching entities leads from one to the other.
C2_AsStated ==
    returned =>
        \A a, b \in Inputs :
            a # b => (same_contour(loc, a, b) <=> connected(a, b))

\* C2.  Two members of one contour are always linked by a chain of touching
\* entities; and when no end point is coincident with more than one other
\* end point, two entities linked by such a chain are in one contour.
C2_ContourWithinComponent ==
    returned =>
        \A a, b \in Inputs :
            a # b =>
                /\ same_contour(loc, a, b) => connected(a, b)
                /\ simple_joints =>
                       (connected(a, b) => same_contour(loc, a, b))

\* A return with a contour of three members, one of them reversed, from an
\* input with simple joints.
C2_Witness ==
    /\ returned
    /\ simple_joints
    /\ \E i \in 1 .. Len(loc) :
          /\ loc[i].nument >= 3
          /\ \E j \in 1 .. Len(loc[i].ent) : obj[loc[i].ent[j]].sw

second_of_permuted == returned /\ call = 2 /\ mode = "fresh"

same_grouping ==
    /\ Groups(loc) = Groups(out1.loc)
    /\ Range(remlines) = Range(out1.remlines)
    /\ Range(remarcs) = Range(out1.remarcs)

\* C3 as stated.  Two permutations of the same input give the same family
\* of contour member sets and the same remaining entities.
C3_AsStated == second_of_permuted => same_grouping

\* C3.  When no end point of the input is coincident with more than one
\* other end point, two permutations of the input give the same family of
\* contour member sets and the same remaining entities.
C3_OrderIndependentOnSimpleJoints ==
    second_of_permuted /\ simple_joints => same_grouping

\* Two calls on different orderings of an input with simple joints, the
\* contours' member lists differing in order.
C3_Witness ==
    /\ second_of_permuted
    /\ simple_joints
    /\ Len(loc) >= 1
    /\ lol \o loa # out1.loc[1].ent
    /\ loc # out1.loc

\* The free ends of the outputs: of a contour, its first member's start
\* point and its last member's end point; of a remaining entity, its two
\* end points.  An output is named by <<"c", i>>, <<"l", i>> or <<"a", i>>.
Outputs ==
    ({"c"} \X (1 .. Len(loc))) \cup ({"l"} \X (1 .. Len(remlines)))
    \cup ({"a"} \X (1 .. Len(remarcs)))

free_ends(o) ==
    IF o[1] = "c"
    THEN LET m == loc[o[2]].ent
         IN  {<<obj[m[1]].x1, obj[m[1]].y1>>,
              <<obj[m[Len(m)]].x2, obj[m[Len(m)]].y2>>}
    ELSE LET e == IF o[1] = "l" THEN obj[remlines[o[2]]]
                  ELSE obj[remarcs[o[2]]]
         IN  {<<e.x1, e.y1>>, <<e.x2, e.y2>>}

\* C4.  When find_contours returns, no free end of one output is coincident
\* within delta on both axes with a free end of another output.
C4_Maximality ==
    returned =>
        \A o1, o2 \in Outputs :
            o1 # o2 =>
                \A p \in free_ends(o1), q \in free_ends(o2) :
                    ~coincident(p[1], p[2], q[1], q[2])

\* A return with a contour that took more than one scan to grow, and
\* another output beside it.
C4_Witness ==
    /\ returned
    /\ Cardinality(Outputs) >= 2
    /\ \E i \in 1 .. Len(loc) : loc[i].nument >= 3

second_of_same == returned /\ call = 2 /\ mode = "same"

\* C9.  A second call on the same lists and the same objects, as the first
\* call left them, returns the same contours with the same member sequences
\* and the same remaining entities, and leaves every entity's end points
\* and swapped flag as the first call left them.
C9_RerunIdempotent ==
    second_of_same =>
        /\ Len(loc) = Len(out1.loc)
        /\ \A i \in 1 .. Len(loc) : loc[i].ent = out1.loc[i].ent
        /\ remlines = out1.remlines
        /\ remarcs = out1.remarcs
        /\ \A e \in Inputs :
              <<obj[e].x1, obj[e].y1, obj[e].x2, obj[e].y2, obj[e].sw>>
                = <<out1.obj[e].x1, out1.obj[e].y1, out1.obj[e].x2,
                    out1.obj[e].y2, out1.obj[e].sw>>

(***************************************************************************)
(* Properties of the arc export.                                           *)
(***************************************************************************)
\* C10.  Over any sequence of swap and dxfdata calls on one Arc the
\* subdivision is generated at most once, and every dxfdata call emits a
\* segment chain that starts at the arc's current start point (x1, y1) and
\* ends at its current end point (x2, y2).
C10_ExportFollowsOrientation ==
    op = "dxfdata" =>
        /\ gens <= 1
        /\ emitted[1][1] = <<arc.x1, arc.y1>>
        /\ emitted[Len(emitted)][2] = <<arc.x2, arc.y2>>

(***************************************************************************)
(* Properties of length().                                                 *)
(***************************************************************************)
\* The Euclidean distance between the end points of e.
euclid(e) ==
    sqrt((e.x2 - e.x1) * (e.x2 - e.x1) + (e.y2 - e.y1) * (e.y2 - e.y1))

RECURSIVE sum_euclid(_, _)
sum_euclid(h, ent) ==
    IF ent = <<>> THEN 0
    ELSE euclid(h[Head(ent)]) + sum_euclid(h, Tail(ent))

only_lines(c) == \A i \in 1 .. Len(c.ent) : obj[c.ent[i]].kind = "Line"

\* C11.  The length of every Line is the Euclidean distance between its end
\* points, and so the length of a contour of Lines is the sum of its
\* members' Euclidean lengths.
C11_LengthIsEuclidean ==
    op = "length" /\ only_lines(cn) =>
        /\ \A i \in 1 .. Len(cn.ent) :
              line_length(obj[cn.ent[i]]) = euclid(obj[cn.ent[i]])
        /\ len[1] = sum_euclid(obj, cn.ent)

(***************************************************************************)
(* The orientation rule of Contour.append.                                 *)
(***************************************************************************)
appended == op = "append" /\ ret

\* What the fit test of the last append returned: fits of the last member
\* before the call, end 2, and the candidate before the call.
newfree_of_append ==
    fits(pre.obj[pre.cn.ent[Len(pre.cn.ent)]], 2, pre.obj[arg])

\* The candidate is the new last member and the contour's end 2 is the
\* candidate's end 2 after the call.
last_member_is_candidate ==
    /\ cn.ent = Append(pre.cn.ent, arg)
    /\ <<cn.x2, cn.y2>> = <<obj[arg].x2, obj[arg].y2>>

\* C12 as stated.  In append, when the fit test returns free end 1 the
\* candidate becomes the last member unmodified, and when it returns free
\* end 2 the candidate is reversed first; either way the contour's end 2
\* becomes the candidate's resulting end 2.
C12_AsStated ==
    appended =>
        /\ newfree_of_append = 1 => obj[arg] = pre.obj[arg]
        /\ newfree_of_append = 2 => obj[arg] = swap(pre.obj[arg])
        /\ last_member_is_candidate

\* C12.  In append, when the fit test returns free end 2 (the candidate's
\* start is the joining point) the candidate becomes the last member
\* unmodified, and when it returns free end 1 the candidate is reversed
\* (end points exchanged, swapped flag toggled) first; either way the
\* contour's end 2 becomes the candidate's resulting end 2.
C12_AppendOrientation ==
    appended =>
        /\ newfree_of_append = 2 => obj[arg] = pre.obj[arg]
        /\ newfree_of_append = 1 =>
              /\ <<obj[arg].x1, obj[arg].y1, obj[arg].x2, obj[arg].y2>>
                   = <<pre.obj[arg].x2, pre.obj[arg].y2, pre.obj[arg].x1,
                       pre.obj[arg].y1>>
              /\ obj[arg].sw = ~pre.obj[arg].sw
        /\ last_member_is_candidate

\* An append that reversed its candidate, onto a contour of two members.
C12_Witness ==
    /\ appended
    /\ newfree_of_append = 1
    /\ Len(cn.ent) >= 3

(***************************************************************************)
(* The bounding box of an Arc.                                             *)
(***************************************************************************)
\* The multiples of 90 degrees strictly between a1 and a2.
axes_strictly_between(a1, a2) ==
    {q \in {90 * k : k \in 0 .. (a2 \div 90 + 1)} : a1 < q /\ q < a2}

\* The point of arc a's circle at angle q.
circle_point(a, q) ==
    <<a.cx + (a.R * cos(q)) \div 1000, a.cy + (a.R * sin(q)) \div 1000>>

\* The smallest box around a set of points.
box_of(P) ==
    <<CHOOSE v \in {p[1] : p \in P} : \A p \in P : v <= p[1],
      CHOOSE v \in {p[2] : p \in P} : \A p \in P : v <= p[2],
      CHOOSE v \in {p[1] : p \in P} : \A p \in P : v >= p[1],
      CHOOSE v \in {p[2] : p \in P} : \A p \in P : v >= p[2]>>

\* C13.  The axis angles whose circle points enlarge the end-point box of
\* an Arc are exactly the multiples of 90 degrees strictly between a1 and
\* a2, so its bounding box is the box of its two end points and of the
\* axis extrema the arc passes through.
C13_AxisAnglesStrictlyBetween ==
    /\ axis_angles(arc.a1, arc.a2) = axes_strictly_between(arc.a1, arc.a2)
    /\ getbb(arc) =
           box_of({circle_point(arc, q) :
                      q \in {arc.a1, arc.a2}
                            \cup axes_strictly_between(arc.a1, arc.a2)})

====
